---- MODULE Spec2Model ----
(***************************************************************************)
(* Model of pyspcwebgw.SpcWebGateway (src/pyspcwebgw/__init__.py): the     *)
(* registry of Area and Zone entities, async_load_parameters, the          *)
(* websocket message handler _async_ws_handler, the resource fetcher       *)
(* _async_get_data, change_mode, start and stop.                           *)
(*                                                                         *)
(* Area, Zone (area.py, zone.py), async_request (utils.py) and the panel   *)
(* itself, AreaMode (const.py) and AIOWSClient (websocket.py) are not part  *)
(* of the modelled file; what the gateway needs of                         *)
(* them is modelled from the specification and marked so below.            *)
(***************************************************************************)
EXTENDS Integers, Sequences, FiniteSets, TLC

VARIABLES
    info,       \* self._info
    areas,      \* self._areas: area id -> generation of the Area object stored
    areaOrder,  \* insertion order of the keys of self._areas
    zones,      \* self._zones: zone id -> the Zone object stored
    areaObj,    \* the live Area objects, keyed by <<id, generation>>
    callback,   \* self._async_callback is set
    nLoads,     \* number of loads that created entities so far
    last,       \* what the most recent operation was given and did
    websocket,  \* self._websocket: 0 for None, else the AIOWSClient it holds
    conns,      \* the AIOWSClients created so far: "open" or "closed"
    call,       \* the most recent call of start, stop or change_mode
    fetched,    \* the most recent call of _async_get_data on its own
    handlers,   \* the _async_ws_handler coroutines suspended at line 129
    inflight,   \* the callback tasks created at line 133 that have not ended
    failed,     \* the messages of which a callback task has failed
    returned,   \* the message whose handler ended most recently, and how
    nMsgs       \* number of push messages delivered to the handler so far

vars == <<info, areas, areaOrder, zones, areaObj, callback, nLoads, last,
          websocket, conns, call, fetched,
          handlers, inflight, failed, returned, nMsgs>>

\* the variables of the connection, and those an operation on the registry
\* has no part in
connVars == <<websocket, conns>>
\* the event loop, followed step by step in SpecAsync only; the other
\* specifications run a handler to its end in one step and keep the tasks it
\* created in `last`
loopVars == <<handlers, inflight, failed, returned, nMsgs>>
facadeVars == <<websocket, conns, call, fetched, loopVars>>

\* ------------------------------------------------------------------ bounds
MaxId == 2
MaxLoads == 2
MaxConns == 2
MaxItems == 2
MaxMessages == 2

Ids == 1..MaxId
StatusValues == {"a", "b"}

\* ------------------------------------------------------------ event codes
\* Area.SUPPORTED_SIA_CODES and Zone.SUPPORTED_SIA_CODES: one representative
\* code of each set.
AreaCodes == {"CG"}
ZoneCodes == {"ZO"}
\* the two user-mode-change codes of the handler's third branch
UserCodes == {"CL", "OP"}
\* a code in none of the three branches
OtherCodes == {"XX"}
Codes == AreaCodes \cup ZoneCodes \cup UserCodes \cup OtherCodes

\* ----------------------------------------------------------------- helpers
RECURSIVE SetToSeq(_)
SetToSeq(S) ==
    IF S = {} THEN <<>>
    ELSE LET m == CHOOSE x \in S : \A y \in S : x <= y
         IN  <<m>> \o SetToSeq(S \ {m})

Range(s) == {s[i] : i \in 1..Len(s)}

\* dict.update / item assignment: the entries of g replace those of f
Override(f, g) == g @@ f

\* ------------------------------------------------------------- the panel
\* What the panel holds when it is asked: a set of areas, a set of zones each
\* assigned to an area id, and a status that every record it serves carries.
\* A record is a snapshot: its status and its last-changed stamp are of the
\* same moment, which the model writes as the two fields being equal.
Upstreams ==
    [areas : SUBSET Ids,
     zones : UNION {[D -> Ids] : D \in SUBSET Ids},
     status : StatusValues]

NoRecord == [id |-> 0, area |-> 0, status |-> "", stamp |-> ""]
AreaRecord(a, status) == [id |-> a, area |-> 0, status |-> status, stamp |-> status]
ZoneRecord(z, a, status) == [id |-> z, area |-> a, status |-> status, stamp |-> status]

AreaList(u) ==
    [i \in 1..Cardinality(u.areas) |-> AreaRecord(SetToSeq(u.areas)[i], u.status)]
ZoneList(u) ==
    [i \in 1..Cardinality(DOMAIN u.zones) |->
        ZoneRecord(SetToSeq(DOMAIN u.zones)[i], u.zones[SetToSeq(DOMAIN u.zones)[i]],
                   u.status)]

\* --------------------------------------------------------- response bodies
\* What async_request hands back: a falsy value on a transport failure, or
\* the decoded body, which may lack the data envelope.
Falsy == [truthy |-> FALSE, envelope |-> FALSE, key |-> "", isList |-> FALSE,
          item |-> NoRecord, items |-> <<>>]
NoEnvelope == [Falsy EXCEPT !.truthy = TRUE]
ObjectBody(key, rec) ==
    [truthy |-> TRUE, envelope |-> TRUE, key |-> key, isList |-> FALSE,
     item |-> rec, items |-> <<>>]
ListBody(key, recs) ==
    [truthy |-> TRUE, envelope |-> TRUE, key |-> key, isList |-> TRUE,
     item |-> NoRecord, items |-> recs]

ResponseKinds == {"ok", "fail", "noenvelope"}

\* the outcomes of one GET for a single entity
Responses ==
    {[kind |-> "ok", status |-> s] : s \in StatusValues}
    \cup {[kind |-> k, status |-> ""] : k \in ResponseKinds \ {"ok"}}

\* GET spc/{resource} against panel u: the collection, always an array
async_request_all(kind, u, resource) ==
    CASE kind = "fail"       -> Falsy
      [] kind = "noenvelope" -> NoEnvelope
      [] kind = "ok" ->
            IF resource = "panel" THEN ObjectBody("panel", NoRecord)
            ELSE IF resource = "area" THEN ListBody("area", AreaList(u))
            ELSE ListBody("zone", ZoneList(u))

\* GET spc/{resource}/{id}: a single area comes wrapped in a one-element
\* array, a single zone does not
async_request_one(resp, resource, id, zoneArea) ==
    CASE resp.kind = "fail"       -> Falsy
      [] resp.kind = "noenvelope" -> NoEnvelope
      [] resp.kind = "ok" ->
            IF resource = "area"
            THEN ListBody("area", <<AreaRecord(id, resp.status)>>)
            ELSE ObjectBody("zone", ZoneRecord(id, zoneArea, resp.status))

\* ---------------------------------------------------------- _async_get_data
Absent == [tag |-> "absent", exc |-> "", rec |-> NoRecord, list |-> <<>>]
Raised(e) == [Absent EXCEPT !.tag = "raise", !.exc = e]
OneRecord(r) == [Absent EXCEPT !.tag = "record", !.rec = r]
RecordList(l) == [Absent EXCEPT !.tag = "list", !.list = l]

\* the request line 140/142 builds: the single-item endpoint when `id` is
\* truthy, the collection endpoint otherwise
Url(resource, id) ==
    IF id # 0 THEN [resource |-> resource, id |-> id]
    ELSE [resource |-> resource, id |-> 0]

\* a single-item payload that is a list is handed back as the list
GetDataUnnormalised(resource, id, data) ==
    IF ~data.truthy THEN Absent
    ELSE IF ~data.envelope \/ data.key # resource THEN Raised("KeyError")
    ELSE IF data.isList THEN RecordList(data.items)
    ELSE OneRecord(data.item)

_async_get_data(resource, id, data) ==
    IF ~data.truthy THEN Absent
    ELSE IF ~data.envelope \/ data.key # resource THEN Raised("KeyError")
    ELSE IF id # 0 /\ data.isList
         THEN IF data.items = <<>> THEN Raised("IndexError")
              ELSE OneRecord(data.items[1])
    ELSE IF id # 0 THEN OneRecord(data.item)
    ELSE IF data.isList THEN RecordList(data.items)
    ELSE OneRecord(data.item)

\* The fetcher called on its own: a resource kind, an id or none (0), and the
\* body async_request hands back, which is any of the shapes a response can
\* have: nothing, a body without the envelope, or an envelope whose key holds
\* one record or a list of up to MaxItems records.
Resources == {"panel", "zone", "area"}
Records ==
    {AreaRecord(a, s) : a \in Ids, s \in StatusValues}
    \cup {ZoneRecord(z, 1, s) : z \in Ids, s \in StatusValues}
Bodies ==
    {Falsy, NoEnvelope}
    \cup {ObjectBody(k, r) : k \in Resources, r \in Records}
    \cup {ListBody(k, l) : k \in Resources,
                           l \in UNION {[1..n -> Records] : n \in 0..MaxItems}}

\* no call yet
NoFetch == [resource |-> "", id |-> 0, body |-> Falsy, done |-> FALSE,
            url |-> Url("", 0), out |-> Absent]
FetchInputs ==
    {[NoFetch EXCEPT !.resource = r, !.id = i, !.body = b] :
        r \in Resources, i \in 0..MaxId, b \in Bodies}

\* lines 139-156 for one call: the request made and what is returned
Fetch ==
    /\ ~fetched.done
    /\ fetched' = [fetched EXCEPT
                      !.done = TRUE,
                      !.url = Url(fetched.resource, fetched.id),
                      !.out = _async_get_data(fetched.resource, fetched.id, fetched.body)]
    /\ UNCHANGED <<info, areas, areaOrder, zones, areaObj, callback, nLoads, last,
                   connVars, call, loopVars>>

\* ------------------------------------------------------------- entities
\* Area(gateway, spc_area): identity and status from the record; its zone
\* list is assigned by the loader.
Area(spc_area) ==
    [status |-> spc_area.status, stamp |-> spc_area.stamp, zones |-> <<>>]

\* Zone(area, spc_zone): a back-reference to the owning Area object (the one
\* of the same generation) and the status of the record.
Zone(areaId, gen, spc_zone) ==
    [gen |-> gen, area |-> areaId, status |-> spc_zone.status,
     stamp |-> spc_zone.stamp]

\* the update is left after the status is written, the stamp still to come
UpdateStatusOnly(entity, data, sia_code) ==
    IF data.tag = "record" THEN [entity EXCEPT !.status = data.rec.status]
    ELSE entity

\* an Area that is updated forgets its zones
UpdateDisowning(entity, data, sia_code) ==
    IF data.tag = "record" /\ "zones" \in DOMAIN entity
    THEN [entity EXCEPT !.status = data.rec.status, !.stamp = data.rec.stamp,
                        !.zones = <<>>]
    ELSE IF data.tag = "record"
    THEN [entity EXCEPT !.status = data.rec.status, !.stamp = data.rec.stamp]
    ELSE entity

\* entity.update(data, sia_code): the fields of the fetched record are
\* applied in one step; no data (Absent) leaves the entity as it is.
Update(entity, data, sia_code) ==
    IF data.tag = "record"
    THEN [entity EXCEPT !.status = data.rec.status, !.stamp = data.rec.stamp]
    ELSE entity

\* line 130: entity.update(data, sia_code), called and not awaited
Apply(entity, data, sia_code) == Update(entity, data, sia_code)

\* a reference to an entity object, or None
None == [kind |-> "None", id |-> 0, gen |-> 0]
AreaRef(id, gen) == [kind |-> "area", id |-> id, gen |-> gen]
ZoneRef(id, gen) == [kind |-> "zone", id |-> id, gen |-> gen]

\* the Area objects still referenced from the registry: those stored in
\* self._areas and those a stored Zone points back to
Live(as, zs, objs) ==
    LET keep == {<<a, as[a]>> : a \in DOMAIN as}
                \cup {<<zs[z].area, zs[z].gen>> : z \in DOMAIN zs}
    IN  [r \in keep |-> objs[r]]

\* ------------------------------------------------- async_load_parameters
\* python truthiness of a fetch result: False and the empty list are falsy
Truthy(r) == r.tag = "record" \/ (r.tag = "list" /\ r.list # <<>>)

\* the filter of line 70 left out
AreaZonesUnfiltered(zoneRecs, spc_area) == zoneRecs

\* lines 69-70: the zone records of one area
AreaZones(zoneRecs, spc_area) ==
    SelectSeq(zoneRecs, LAMBDA z : z.area = spc_area.id)

\* an Area already registered is kept and its zone list extended
NewAreaExtending(reg, spc_area, area_zones) ==
    IF spc_area.id \in DOMAIN reg.areas
    THEN [reg.areaObj[<<spc_area.id, reg.areas[spc_area.id]>>] EXCEPT
             !.zones = @ \o [i \in 1..Len(area_zones) |-> area_zones[i].id]]
    ELSE [Area(spc_area) EXCEPT !.zones = [i \in 1..Len(area_zones) |-> area_zones[i].id]]

\* lines 68 and 71: a new Area object that lists the ids of its zones
NewArea(reg, spc_area, area_zones) ==
    [Area(spc_area) EXCEPT !.zones = [i \in 1..Len(area_zones) |-> area_zones[i].id]]

\* lines 67-73: one pass of the loop per area record
RECURSIVE LoadLoop(_, _, _, _)
LoadLoop(reg, areaRecs, zoneRecs, gen) ==
    IF areaRecs = <<>> THEN reg
    ELSE
        LET spc_area   == Head(areaRecs)
            area_zones == AreaZones(zoneRecs, spc_area)
            area       == NewArea(reg, spc_area, area_zones)
            newZones   == [z \in {area_zones[i].id : i \in 1..Len(area_zones)} |->
                              Zone(spc_area.id, gen,
                                   CHOOSE r \in Range(area_zones) : r.id = z)]
            next       ==
                [areas     |-> Override(reg.areas, spc_area.id :> gen),
                 areaOrder |-> IF spc_area.id \in DOMAIN reg.areas THEN reg.areaOrder
                               ELSE Append(reg.areaOrder, spc_area.id),
                 zones     |-> Override(reg.zones, newZones),
                 areaObj   |-> Override(reg.areaObj, <<spc_area.id, gen>> :> area)]
        IN  LoadLoop(next, Tail(areaRecs), zoneRecs, gen)

\* the areas are put into the registry before the zone list is tested
LoadRegistryAreasFirst(reg, zonesR, areasR, gen) ==
    IF ~Truthy(areasR) THEN [ok |-> FALSE, reg |-> reg]
    ELSE IF ~Truthy(zonesR)
    THEN [ok |-> FALSE, reg |-> LoadLoop(reg, areasR.list, <<>>, gen)]
    ELSE [ok |-> TRUE, reg |-> LoadLoop(reg, areasR.list, zonesR.list, gen)]

\* lines 64-75: the failure test and the population of the registry
LoadRegistry(reg, zonesR, areasR, gen) ==
    IF ~Truthy(zonesR) \/ ~Truthy(areasR)
    THEN [ok |-> FALSE, reg |-> reg]
    ELSE [ok |-> TRUE, reg |-> LoadLoop(reg, areasR.list, zonesR.list, gen)]

Registry == [areas |-> areas, areaOrder |-> areaOrder, zones |-> zones,
             areaObj |-> areaObj]

NoMessage == [code |-> "", id |-> 0]
NoData == [zones |-> <<>>, areas |-> <<>>]
Quiet == [requests |-> <<>>, responses |-> <<>>, updated |-> <<>>, tasks |-> <<>>,
          exc |-> ""]
LastOf(op, msg, data, result, did, error, again) ==
    [op |-> op, msg |-> msg, data |-> data, result |-> result,
     requests |-> did.requests, responses |-> did.responses,
     updated |-> did.updated, tasks |-> did.tasks, error |-> error, again |-> again]

\* lines 60-75.  A fetch that raises ends the load where it stands.
LoadWith(panelR, zonesR, areasR) ==
    LET done  == LoadRegistry(Registry, zonesR, areasR, nLoads + 1)
        reqs  == <<Url("panel", 0), Url("zone", 0), Url("area", 0)>>
        data  == [zones |-> zonesR.list, areas |-> areasR.list]
        did(n) == [Quiet EXCEPT !.requests = SubSeq(reqs, 1, n)]
        again == done.ok /\ last.op = "load" /\ last.result = "True" /\ last.data = data
    IN  IF panelR.tag = "raise"
        THEN /\ last' = LastOf("load", NoMessage, NoData, panelR.exc, did(1), FALSE, FALSE)
             /\ UNCHANGED <<info, areas, areaOrder, zones, areaObj, nLoads>>
        ELSE IF zonesR.tag = "raise"
        THEN /\ info' = panelR.tag
             /\ last' = LastOf("load", NoMessage, NoData, zonesR.exc, did(2), FALSE, FALSE)
             /\ UNCHANGED <<areas, areaOrder, zones, areaObj, nLoads>>
        ELSE IF areasR.tag = "raise"
        THEN /\ info' = panelR.tag
             /\ last' = LastOf("load", NoMessage, NoData, areasR.exc, did(3), FALSE, FALSE)
             /\ UNCHANGED <<areas, areaOrder, zones, areaObj, nLoads>>
        ELSE /\ info' = panelR.tag
             /\ areas' = done.reg.areas
             /\ areaOrder' = done.reg.areaOrder
             /\ zones' = done.reg.zones
             /\ areaObj' = Live(done.reg.areas, done.reg.zones, done.reg.areaObj)
             /\ nLoads' = IF done.ok THEN nLoads + 1 ELSE nLoads
             /\ last' = LastOf("load", NoMessage, data,
                               IF done.ok THEN "True" ELSE "False", did(3), FALSE, again)

\* The outcomes of the three requests of one load.  A transport that fails the
\* first request fails the two that follow it.
LoadResponses ==
    {k \in [panel : ResponseKinds, zone : ResponseKinds, area : ResponseKinds] :
        k.panel = "fail" => (k.zone = "fail" /\ k.area = "fail")}

\* a load against one of `panels` whose requests meet one of `kinds`
LoadFrom(panels, kinds) ==
    /\ nLoads < MaxLoads
    /\ \E k \in kinds :
        LET get(kind, u, resource) ==
                _async_get_data(resource, 0, async_request_all(kind, u, resource))
            none == [areas |-> {}, zones |-> <<>>, status |-> "a"]
        IN  IF k.panel = "ok" /\ k.zone = "ok" /\ k.area = "ok"
            THEN \E u \in panels :
                    LoadWith(get("ok", u, "panel"), get("ok", u, "zone"),
                             get("ok", u, "area"))
            ELSE LoadWith(get(k.panel, none, "panel"), get(k.zone, none, "zone"),
                          get(k.area, none, "area"))
    /\ UNCHANGED <<callback, facadeVars>>

async_load_parameters == LoadFrom(Upstreams, LoadResponses)

\* -------------------------------------------------------- _async_ws_handler
\* an Area code with an id that is not registered refreshes every Area
ClassifyFallingBack(sia_code, spc_id) ==
    IF (sia_code \in AreaCodes /\ spc_id \in DOMAIN areas) \/ sia_code \in ZoneCodes
    THEN [interested |-> TRUE,
          resource |-> IF sia_code \in AreaCodes THEN "area" ELSE "zone",
          entities |-> <<IF sia_code \in AreaCodes THEN AreaRef(spc_id, areas[spc_id])
                         ELSE IF spc_id \in DOMAIN zones
                         THEN ZoneRef(spc_id, zones[spc_id].gen) ELSE None>>]
    ELSE IF sia_code \in AreaCodes \cup {"CL", "OP"}
    THEN [interested |-> TRUE, resource |-> "area",
          entities |-> [i \in 1..Len(areaOrder) |->
                           AreaRef(areaOrder[i], areas[areaOrder[i]])]]
    ELSE [interested |-> FALSE, resource |-> "", entities |-> <<>>]

\* a code of no branch refreshes every Area, as a user-mode-change code does
ClassifyRefreshingOther(sia_code, spc_id) ==
    IF sia_code \in AreaCodes
    THEN [interested |-> TRUE, resource |-> "area",
          entities |-> <<IF spc_id \in DOMAIN areas
                         THEN AreaRef(spc_id, areas[spc_id]) ELSE None>>]
    ELSE IF sia_code \in ZoneCodes
    THEN [interested |-> TRUE, resource |-> "zone",
          entities |-> <<IF spc_id \in DOMAIN zones
                         THEN ZoneRef(spc_id, zones[spc_id].gen) ELSE None>>]
    ELSE [interested |-> TRUE, resource |-> "area",
          entities |-> [i \in 1..Len(areaOrder) |->
                           AreaRef(areaOrder[i], areas[areaOrder[i]])]]

\* lines 106-120: the entities and the resource kind a message resolves to
Classify(sia_code, spc_id) ==
    IF sia_code \in AreaCodes
    THEN [interested |-> TRUE, resource |-> "area",
          entities |-> <<IF spc_id \in DOMAIN areas
                         THEN AreaRef(spc_id, areas[spc_id]) ELSE None>>]
    ELSE IF sia_code \in ZoneCodes
    THEN [interested |-> TRUE, resource |-> "zone",
          entities |-> <<IF spc_id \in DOMAIN zones
                         THEN ZoneRef(spc_id, zones[spc_id].gen) ELSE None>>]
    ELSE IF sia_code \in {"CL", "OP"}
    THEN [interested |-> TRUE, resource |-> "area",
          entities |-> [i \in 1..Len(areaOrder) |->
                           AreaRef(areaOrder[i], areas[areaOrder[i]])]]
    ELSE [interested |-> FALSE, resource |-> "", entities |-> <<>>]

\* line 122: `not entities`
NoEntities(entities) == Len(entities) = 0

\* the fields of an entity that a fetched record sets
FieldsOf(st, entity) ==
    IF entity.kind = "area"
    THEN [status |-> st.areaObj[<<entity.id, entity.gen>>].status,
          stamp  |-> st.areaObj[<<entity.id, entity.gen>>].stamp]
    ELSE [status |-> st.zones[entity.id].status, stamp |-> st.zones[entity.id].stamp]

\* lines 132-133: the callback task, created with the entity as it is then
Schedule(st, entity, data) ==
    IF callback
    THEN [st EXCEPT !.tasks = Append(@, entity),
                    !.scheduled = Append(@, [msg |-> 0, entity |-> entity,
                                             applied |-> data.tag = "record",
                                             rec |-> data.rec,
                                             fields |-> FieldsOf(st, entity)])]
    ELSE st

\* lines 129-133 for one entity: fetch, update, schedule the callback.
\* `st` carries the entities' state and what the handler has done so far.
HandleEntity(st, entity, resource, sia_code, resp) ==
    IF entity = None
    THEN [st EXCEPT !.exc = "AttributeError"]
    ELSE
        LET zoneArea == IF entity.kind = "zone" THEN st.zones[entity.id].area ELSE 0
            data == _async_get_data(resource, entity.id,
                        async_request_one(resp, resource, entity.id, zoneArea))
            st1  == [st EXCEPT !.requests = Append(@, Url(resource, entity.id)),
                               !.responses = Append(@, resp.kind)]
            st2  == [st1 EXCEPT
                    !.areaObj = IF entity.kind = "area"
                                THEN [@ EXCEPT ![<<entity.id, entity.gen>>] =
                                                   Apply(@, data, sia_code)]
                                ELSE @,
                    !.zones   = IF entity.kind = "zone"
                                THEN [@ EXCEPT ![entity.id] = Apply(@, data, sia_code)]
                                ELSE @,
                    !.updated = Append(@, entity)]
        IN  IF data.tag = "raise"
            THEN [st1 EXCEPT !.exc = data.exc]
            ELSE Schedule(st2, entity, data)

\* lines 126-135: the loop over the entities, left at the first exception
RECURSIVE HandleEntities(_, _, _, _, _)
HandleEntities(st, entities, resource, sia_code, resps) ==
    IF entities = <<>> \/ st.exc # "" THEN st
    ELSE HandleEntities(HandleEntity(st, Head(entities), resource, sia_code, Head(resps)),
                        Tail(entities), resource, sia_code, Tail(resps))

\* the entities as they are and nothing done yet
Start == [areaObj |-> areaObj, zones |-> zones, requests |-> <<>>,
          responses |-> <<>>, updated |-> <<>>, tasks |-> <<>>, scheduled |-> <<>>,
          exc |-> ""]

\* lines 98-135 for one message and the responses its fetches get
HandleMessage(sia_code, spc_id, resps) ==
    LET msg == [code |-> sia_code, id |-> spc_id]
        c   == Classify(sia_code, spc_id)
        st  == HandleEntities(Start, c.entities, c.resource, sia_code, resps)
    IN  IF ~c.interested
        THEN /\ last' = LastOf("message", msg, NoData, "None", Quiet, FALSE, FALSE)
             /\ UNCHANGED <<areaObj, zones>>
        ELSE IF NoEntities(c.entities)
        THEN /\ last' = LastOf("message", msg, NoData, "None", Quiet, TRUE, FALSE)
             /\ UNCHANGED <<areaObj, zones>>
        ELSE /\ areaObj' = st.areaObj
             /\ zones' = st.zones
             /\ last' = LastOf("message", msg, NoData,
                               IF st.exc # "" THEN st.exc ELSE "tasks", st, FALSE, FALSE)

_async_ws_handler ==
    /\ \E sia_code \in Codes, spc_id \in Ids :
          \E resps \in [1..Len(Classify(sia_code, spc_id).entities) -> Responses] :
             HandleMessage(sia_code, spc_id, resps)
    /\ UNCHANGED <<info, areas, areaOrder, callback, nLoads, facadeVars>>

\* ------------------------------------------------------------- change_mode
\* AreaMode (const.py): the four operating modes
AreaMode == {"UNSET", "PART_SET_A", "PART_SET_B", "FULL_SET"}
\* values that are no AreaMode: a bare command token and None
OtherModes == {"set", "None"}
Modes == AreaMode \cup OtherModes

\* the full-set mode sent as the part-set-A command
CommandMapFullAsPartSet ==
    [m \in AreaMode |-> CASE m = "UNSET"      -> "unset"
                          [] m = "PART_SET_A" -> "set_a"
                          [] m = "PART_SET_B" -> "set_b"
                          [] m = "FULL_SET"   -> "set_a"]

\* lines 82-87
AREA_MODE_COMMAND_MAP ==
    [m \in AreaMode |-> CASE m = "UNSET"      -> "unset"
                          [] m = "PART_SET_A" -> "set_a"
                          [] m = "PART_SET_B" -> "set_b"
                          [] m = "FULL_SET"   -> "set"]

\* the `area` argument: an Area object (any the caller may hold) or a raw id
RawId(n) == [kind |-> "raw", value |-> n]
RawIds == {RawId(n) : n \in Ids}
Handles == {AreaRef(k[1], k[2]) : k \in DOMAIN areaObj}

\* what async_request hands back for the PUT: the transport's success signal
Signals == {"True", "False"}

\* lines 93-94: the request spc/area/{area_id}/{command}
PutUrl(area_id, command) ==
    [method |-> "PUT", resource |-> "area", id |-> area_id, command |-> command]

\* the request is made before the mode is looked at
ChangeModeCheckingLate(area, new_mode, signal) ==
    LET area_id == IF area.kind = "area" THEN area.id ELSE area.value
    IN  IF new_mode \notin AreaMode
        THEN [requests |-> <<PutUrl(area_id, "unset")>>, result |-> "TypeError"]
        ELSE [requests |-> <<PutUrl(area_id, AREA_MODE_COMMAND_MAP[new_mode])>>,
              result |-> signal]

\* lines 79-96: the requests made and what the caller gets
ChangeMode(area, new_mode, signal) ==
    IF new_mode \notin AreaMode
    THEN [requests |-> <<>>, result |-> "TypeError"]
    ELSE LET area_id == IF area.kind = "area" THEN area.id ELSE area.value
             url     == PutUrl(area_id, AREA_MODE_COMMAND_MAP[new_mode])
         IN  [requests |-> <<url>>, result |-> signal]

NoCall == [requests |-> <<>>, result |-> "None"]
NoReturn == [n |-> 0, result |-> ""]
CallOf(op, area, mode, signal, held, did) ==
    [op |-> op, area |-> area, mode |-> mode, signal |-> signal, held |-> held,
     requests |-> did.requests, result |-> did.result]

change_mode ==
    /\ \E area \in Handles \cup RawIds, new_mode \in Modes, signal \in Signals :
          call' = CallOf("change_mode", area, new_mode, signal, websocket,
                         ChangeMode(area, new_mode, signal))
    /\ UNCHANGED <<info, areas, areaOrder, zones, areaObj, callback, nLoads, last,
                   connVars, fetched, loopVars>>

\* ------------------------------------------------------------ start, stop
\* AIOWSClient(...).start(): a new client whose connection is open
WsStart(cs) == Append(cs, "open")
\* AIOWSClient.stop(): the client's connection is closed
WsStop(cs, ws) == [cs EXCEPT ![ws] = "closed"]

\* the connections the gateway opened that are still open
OpenConns == {i \in 1..Len(conns) : conns[i] = "open"}

\* lines 47-51: the handle is replaced by a new client, which is started
start ==
    /\ Len(conns) < MaxConns
    /\ conns' = WsStart(conns)
    /\ websocket' = Len(conns) + 1
    /\ call' = CallOf("start", None, "", "", websocket, NoCall)
    /\ UNCHANGED <<info, areas, areaOrder, zones, areaObj, callback, nLoads, last,
                   fetched, loopVars>>

\* lines 55-56: None has no stop()
stop ==
    /\ IF websocket = 0
       THEN /\ call' = CallOf("stop", None, "", "", websocket,
                              [NoCall EXCEPT !.result = "AttributeError"])
            /\ UNCHANGED connVars
       ELSE /\ conns' = WsStop(conns, websocket)
            /\ websocket' = 0
            /\ call' = CallOf("stop", None, "", "", websocket, NoCall)
    /\ UNCHANGED <<info, areas, areaOrder, zones, areaObj, callback, nLoads, last,
                   fetched, loopVars>>

\* ------------------------------------------- the handler on the event loop
\* The coroutine of _async_ws_handler suspends at the await of line 129 and
\* nowhere else.  Between two suspensions it runs alone: from the message to
\* the first request (Begin), and from a response through the update and the
\* creation of the callback task to the next request or to the return of
\* line 135 (Resume).  The tasks it creates run on their own.

\* lines 100-129: a message arrives on an open connection; the handler
\* returns, raises, or sends the request for its first entity and suspends
Begin ==
    /\ OpenConns # {}
    /\ nMsgs < MaxMessages
    /\ \E sia_code \in Codes, spc_id \in Ids :
          LET c == Classify(sia_code, spc_id)
              n == nMsgs + 1
          IN  IF ~c.interested \/ NoEntities(c.entities)
              THEN /\ returned' = [n |-> n, result |-> "None"]
                   /\ UNCHANGED handlers
              ELSE IF Head(c.entities) = None
              THEN /\ returned' = [n |-> n, result |-> "AttributeError"]
                   /\ UNCHANGED handlers
              ELSE /\ handlers' = handlers \cup
                         {[n |-> n, code |-> sia_code, id |-> spc_id,
                           resource |-> c.resource, entities |-> c.entities]}
                   /\ UNCHANGED returned
    /\ nMsgs' = nMsgs + 1
    /\ UNCHANGED <<info, areas, areaOrder, zones, areaObj, callback, nLoads, last,
                   connVars, call, fetched, inflight, failed>>

\* a handler goes on only when the callbacks of its message have ended
ResumableAfterCallbacks(h) ==
    h \in handlers /\ \A t \in inflight : t.msg # h.n

\* line 129: what a suspended handler waits for is the response to its request
Resumable(h) == h \in handlers

\* lines 129-135: the response arrives; the entity is updated and its callback
\* task created, then the next request is sent or the handler returns
Resume(h) ==
    /\ Resumable(h)
    /\ \E resp \in Responses :
          LET st   == HandleEntity(Start, Head(h.entities), h.resource, h.code, resp)
              rest == Tail(h.entities)
          IN  /\ areaObj' = st.areaObj
              /\ zones' = st.zones
              /\ inflight' = inflight \cup
                                {[t EXCEPT !.msg = h.n] : t \in Range(st.scheduled)}
              /\ IF st.exc # ""
                 THEN /\ handlers' = handlers \ {h}
                      /\ returned' = [n |-> h.n, result |-> st.exc]
                 ELSE IF rest = <<>>
                 THEN /\ handlers' = handlers \ {h}
                      /\ returned' = [n |-> h.n, result |-> "tasks"]
                 ELSE /\ handlers' = (handlers \ {h}) \cup {[h EXCEPT !.entities = rest]}
                      /\ UNCHANGED returned
    /\ UNCHANGED <<info, areas, areaOrder, callback, nLoads, last,
                   connVars, call, fetched, failed, nMsgs>>

ResumeSome == \E h \in handlers : Resume(h)

\* a callback task ends, normally or with an exception; one that never ends
\* stays in flight
CallbackEnds ==
    /\ \E t \in inflight, outcome \in {"done", "failed"} :
          /\ inflight' = inflight \ {t}
          /\ failed' = IF outcome = "failed" THEN failed \cup {t.msg} ELSE failed
    /\ UNCHANGED <<info, areas, areaOrder, zones, areaObj, callback, nLoads, last,
                   connVars, call, fetched, handlers, returned, nMsgs>>

\* ---------------------------------------------------------- specification
\* __init__ (lines 18-28) of a gateway about to make one of the fetches fs
InitWith(fs) ==
    /\ info = "None"
    /\ areas = <<>>
    /\ areaOrder = <<>>
    /\ zones = <<>>
    /\ areaObj = <<>>
    /\ callback \in BOOLEAN
    /\ nLoads = 0
    /\ last = LastOf("init", NoMessage, NoData, "", Quiet, FALSE, FALSE)
    /\ websocket = 0
    /\ conns = <<>>
    /\ call = CallOf("init", None, "", "", 0, NoCall)
    /\ fetched \in fs
    /\ handlers = {}
    /\ inflight = {}
    /\ failed = {}
    /\ returned = NoReturn
    /\ nMsgs = 0

\* a gateway as constructed: no info, empty registries; the callback may be
\* given or None.
Init == InitWith({NoFetch})

\* the load that initialises the gateway, repeated until it succeeds
InitialLoad == nLoads = 0 /\ async_load_parameters

\* A session: the registry is loaded, then push messages arrive.
Next ==
    \/ InitialLoad
    \/ _async_ws_handler

Spec == Init /\ [][Next]_vars

\* Loads only, up to MaxLoads of them succeeding: each load meets a panel
\* that may differ from the one the load before met.
NextLoad == async_load_parameters

SpecLoad == Init /\ [][NextLoad]_vars

\* panels in which every id is an area and every id is a zone
FullPanels == {u \in Upstreams : u.areas = Ids /\ DOMAIN u.zones = Ids}

\* the initialising load against such a panel
FacadeLoad == nLoads = 0 /\ LoadFrom(FullPanels, LoadResponses)

\* The public surface: the registry is loaded, the connection is opened and
\* closed and modes are changed, in any order.
NextFacade ==
    \/ FacadeLoad
    \/ start
    \/ stop
    \/ change_mode

SpecFacade == Init /\ [][NextFacade]_vars

\* The event loop: the registry is loaded, the connection opened, and up to
\* MaxMessages push messages are handled while callback tasks are in flight.
NextAsync ==
    \/ FacadeLoad
    \/ start
    \/ Begin
    \/ ResumeSome
    \/ CallbackEnds

SpecAsync == Init /\ [][NextAsync]_vars

\* The fetcher on its own: one call, for every resource kind, id and body.
InitFetch == InitWith(FetchInputs)

NextFetch == Fetch

SpecFetch == InitFetch /\ [][NextFetch]_vars

\* ------------------------------------------------------------- properties
IsMessage == last.op = "message"
IsLoad == last.op = "load"

\* the ids of a list of records
IdsOf(recs) == {recs[i].id : i \in 1..Len(recs)}

\* the Area object stored under id a
StoredArea(a) == areaObj[<<a, areas[a]>>]

\* every registered Area, as the entities of a message
RegisteredAreas == {AreaRef(a, areas[a]) : a \in DOMAIN areas}

\* the callbacks a gateway schedules for the entities es: one each when it was
\* given a callback, none when it was given None
Scheduled(es) == IF callback THEN es ELSE <<>>

\* a message that resolves to no entity: a code of a namespace with an id the
\* namespace's registry does not hold, or a user-mode-change code with no Area
NoTarget ==
    \/ last.msg.code \in AreaCodes /\ last.msg.id \notin DOMAIN areas
    \/ last.msg.code \in ZoneCodes /\ last.msg.id \notin DOMAIN zones
    \/ last.msg.code \in UserCodes /\ DOMAIN areas = {}

\* C1: a message that resolves to no entity is reported as an unregistered-id
\* error and dropped: the handler returns normally, fetches nothing, updates no
\* entity and schedules no callback.
C1_UnregisteredIdReported ==
    (IsMessage /\ NoTarget) =>
        /\ last.error
        /\ last.result = "None"
        /\ last.requests = <<>>
        /\ last.updated = <<>>
        /\ last.tasks = <<>>

\* C2: when a message refreshes several Areas and the fetch for one of them
\* returns no data, every Area is still fetched and updated and gets its
\* callback scheduled, and the handler does not raise.
C2_AbsentFetchTolerated ==
    (/\ IsMessage
     /\ last.msg.code \in UserCodes
     /\ Cardinality(DOMAIN areas) > 1
     /\ \E i \in 1..Len(last.responses) : last.responses[i] = "fail") =>
        /\ last.result = "tasks"
        /\ Len(last.requests) = Cardinality(DOMAIN areas)
        /\ Len(last.updated) = Cardinality(DOMAIN areas)
        /\ Range(last.updated) = RegisteredAreas
        /\ last.tasks = Scheduled(last.updated)

\* the one entity a message of a namespace's code with a registered id is about
Target ==
    IF last.msg.code \in AreaCodes THEN AreaRef(last.msg.id, areas[last.msg.id])
    ELSE ZoneRef(last.msg.id, zones[last.msg.id].gen)

OneTarget ==
    \/ last.msg.code \in AreaCodes /\ last.msg.id \in DOMAIN areas
    \/ last.msg.code \in ZoneCodes /\ last.msg.id \in DOMAIN zones

\* C3: a message with an Area (Zone) code and a registered id re-fetches
\* exactly that Area (Zone) with resource kind area (zone), updates it and no
\* other entity, and schedules exactly one callback, for that entity.
C3_SingleTargetRefreshed ==
    (IsMessage /\ OneTarget) =>
        /\ last.requests =
              <<Url(IF last.msg.code \in AreaCodes THEN "area" ELSE "zone", last.msg.id)>>
        /\ last.updated = <<Target>>
        /\ last.tasks = Scheduled(<<Target>>)

\* C4: a message with a user-mode-change code (CL, OP) re-fetches and updates
\* every registered Area, whatever its id field holds, and schedules one
\* callback per Area.
C4_UserCodeRefreshesAllAreas ==
    (IsMessage /\ last.msg.code \in UserCodes /\ DOMAIN areas # {}) =>
        /\ Len(last.requests) = Cardinality(DOMAIN areas)
        /\ {r.id : r \in Range(last.requests)} = DOMAIN areas
        /\ \A i \in 1..Len(last.requests) : last.requests[i].resource = "area"
        /\ Len(last.updated) = Cardinality(DOMAIN areas)
        /\ Range(last.updated) = RegisteredAreas
        /\ last.tasks = Scheduled(last.updated)

UnknownId == last.msg.id \notin DOMAIN areas /\ last.msg.id \notin DOMAIN zones

C6_FailedLoadLeavesRegistryEmpty ==
    (IsLoad /\ last.result = "False") => (DOMAIN areas = {} /\ DOMAIN zones = {})

\* C6 as amended: a load() that reports failure leaves both registry maps and
\* every entity exactly as they were before the call, so nothing is partially
\* populated, and the maps are empty when no load has succeeded before.
C6_FailedLoadLeavesRegistryUnchanged ==
    [][(last'.op = "load" /\ last'.result = "False") =>
          /\ areas' = areas
          /\ zones' = zones
          /\ areaObj' = areaObj
          /\ areaOrder' = areaOrder
          /\ nLoads = 0 => (DOMAIN areas' = {} /\ DOMAIN zones' = {})]_vars

\* a load that reports failure after an earlier load has succeeded
C6_Witness ==
    IsLoad /\ last.result = "False" /\ nLoads > 0 /\ DOMAIN zones # {}

\* the zones of a load's data that are assigned to one of its areas
AssignedZones(data) ==
    {data.zones[i].id : i \in {j \in 1..Len(data.zones) :
                                  data.zones[j].area \in IdsOf(data.areas)}}

\* C7: after a successful load() the keys of the Area registry are exactly the
\* area ids of that load's data and the keys of the Zone registry exactly the
\* ids of the zones assigned to those areas.
C7_LoadReplacesRegistry ==
    (IsLoad /\ last.result = "True") =>
        /\ DOMAIN areas = IdsOf(last.data.areas)
        /\ DOMAIN zones = AssignedZones(last.data)

\* C8: every Zone of the Zone registry refers back to the Area object that the
\* Area registry stores under that area's id, and that Area lists the Zone.
C8_ZoneBackReference ==
    \A z \in DOMAIN zones :
        /\ zones[z].area \in DOMAIN areas
        /\ areas[zones[z].area] = zones[z].gen
        /\ z \in Range(StoredArea(zones[z].area).zones)

\* C9: a successful load into an empty registry creates one Area per area
\* record, each owning exactly the zones whose area field is its id; no zone
\* has two owners, and the Zone registry is the union of the owned zones.
C9_LoadPartitionsZones ==
    (IsLoad /\ last.result = "True" /\ nLoads = 1) =>
        LET A == last.data.areas
            Z == last.data.zones
            owned(a) == StoredArea(a).zones
        IN  /\ DOMAIN areas = IdsOf(A)
            /\ Cardinality(DOMAIN areas) = Len(A)
            /\ \A a \in DOMAIN areas :
                  /\ Range(owned(a)) = {Z[i].id : i \in {j \in 1..Len(Z) : Z[j].area = a}}
                  /\ Cardinality(Range(owned(a))) = Len(owned(a))
            /\ \A a \in DOMAIN areas, b \in DOMAIN areas :
                  a # b => Range(owned(a)) \cap Range(owned(b)) = {}
            /\ DOMAIN zones = UNION {Range(owned(a)) : a \in DOMAIN areas}

\* the specification's example: one Area that owns exactly zones 1 and 2
C9_Witness ==
    /\ IsLoad /\ last.result = "True" /\ nLoads = 1
    /\ Cardinality(DOMAIN areas) = 1
    /\ \E a \in DOMAIN areas : StoredArea(a).zones = <<1, 2>>
    /\ DOMAIN zones = {1, 2}

\* what the registry holds, apart from the identity of the objects
Content ==
    [areaIds |-> DOMAIN areas,
     zoneIds |-> DOMAIN zones,
     owned   |-> [a \in DOMAIN areas |-> StoredArea(a).zones],
     areaStatus |-> [a \in DOMAIN areas |->
                        [status |-> StoredArea(a).status, stamp |-> StoredArea(a).stamp]],
     zoneFields |-> [z \in DOMAIN zones |->
                        [area |-> zones[z].area, status |-> zones[z].status,
                         stamp |-> zones[z].stamp]]]

\* C10: a load() that follows a successful load() and is given the same data
\* leaves the registry with the same Area ids, Zone ids, ownership and field
\* values.
C10_LoadIdempotent ==
    [][(/\ IsLoad /\ last.result = "True"
        /\ last'.op = "load" /\ last'.result = "True"
        /\ last'.data = last.data) => Content' = Content]_vars

\* a second successful load in a row with the data of the first
C10_Witness ==
    IsLoad /\ last.again /\ DOMAIN zones # {} /\ nLoads = 2

\* the id an `area` argument names, and the command token of a mode
ArgId(area) == IF area.kind = "area" THEN area.id ELSE area.value
CommandOf(mode) ==
    CASE mode = "UNSET"      -> "unset"
      [] mode = "PART_SET_A" -> "set_a"
      [] mode = "PART_SET_B" -> "set_b"
      [] mode = "FULL_SET"   -> "set"

\* C11: change_mode with a mode that is none of Unset, PartSetA, PartSetB,
\* FullSet is rejected with a contract error (TypeError) and makes no request,
\* whether the area is given as an Area or as a raw id.
C11_InvalidModeRejected ==
    (call.op = "change_mode"
     /\ call.mode \notin {"UNSET", "PART_SET_A", "PART_SET_B", "FULL_SET"}) =>
        /\ call.result = "TypeError"
        /\ call.requests = <<>>

\* an invalid mode given with an Area of the registry, and rejected
C11_Witness ==
    /\ call.op = "change_mode"
    /\ call.mode = "set"
    /\ call.area.kind = "area"
    /\ call.area.id \in DOMAIN areas
    /\ call.result = "TypeError"

\* C12: change_mode with a valid mode makes exactly one request, PUT
\* spc/area/{area_id}/{command} with the command token of the mode and the id
\* the argument names (the same for an Area and for that Area's raw id),
\* returns the transport's success signal and changes no entity of the
\* registry.
C12_ValidModeOneRequest ==
    [][(call' # call /\ call'.op = "change_mode"
        /\ call'.mode \in {"UNSET", "PART_SET_A", "PART_SET_B", "FULL_SET"}) =>
          /\ call'.requests =
                <<[method |-> "PUT", resource |-> "area", id |-> ArgId(call'.area),
                   command |-> CommandOf(call'.mode)]>>
          /\ call'.result = call'.signal
          /\ UNCHANGED <<areas, areaOrder, zones, areaObj, info>>]_vars

\* a full set of a registered Area given as an Area, refused by the transport
C12_Witness ==
    /\ call.op = "change_mode"
    /\ call.mode = "FULL_SET"
    /\ call.area.kind = "area"
    /\ call.area.id \in DOMAIN areas
    /\ call.result = "False"
    /\ Len(call.requests) = 1
    /\ call.requests[1].command = "set"

\* C13: stop() returns normally, leaves the connection handle unset and the
\* connection it held closed, also when no connection is held; start() leaves
\* the handle on a new open connection.
C13_StopClosesAndRepeats ==
    /\ call.op = "stop" =>
          /\ call.result = "None"
          /\ websocket = 0
          /\ call.held # 0 => conns[call.held] = "closed"
    /\ call.op = "start" =>
          /\ websocket # 0
          /\ conns[websocket] = "open"
          /\ websocket # call.held

\* C20: at most one connection the gateway opened is open, and every open one
\* is the one the connection handle holds.
C20_OneReachableConnection ==
    /\ Cardinality(OpenConns) <= 1
    /\ \A i \in OpenConns : websocket = i

\* C14: a message whose code is in none of the three branches (no Area code,
\* no Zone code, neither CL nor OP) is discarded: the handler returns normally
\* without a fetch, without an error, without a callback, and leaves every
\* entity and both registry maps as they were, whether or not its id is
\* registered.
C14_UnsupportedCodeDiscarded ==
    [][(/\ last'.op = "message"
        /\ last'.msg.code \notin AreaCodes \cup ZoneCodes \cup {"CL", "OP"}) =>
          /\ last'.result = "None"
          /\ ~last'.error
          /\ last'.requests = <<>>
          /\ last'.updated = <<>>
          /\ last'.tasks = <<>>
          /\ UNCHANGED <<areas, areaOrder, zones, areaObj, info>>]_vars

\* such a message with an id that both registries hold, at a gateway that has
\* a callback
C14_Witness ==
    /\ IsMessage
    /\ last.msg.code \in OtherCodes
    /\ last.msg.id \in DOMAIN areas
    /\ last.msg.id \in DOMAIN zones
    /\ callback
    /\ last.result = "None"

\* a body that carries a payload for the resource asked for
WellFormed == fetched.body.truthy /\ fetched.body.envelope
              /\ fetched.body.key = fetched.resource

\* C15: the fetcher never raises: whatever the response and with or without
\* an id it returns a record, a list of records or Absent, and for a body
\* without the data envelope or without the resource's key it returns Absent,
\* as it does for a transport failure.
C15_FetcherNeverRaises ==
    fetched.done =>
        /\ fetched.out.tag \in {"record", "list", "absent"}
        /\ ~WellFormed => fetched.out = Absent

C17_CallbacksFireAndForget ==
    /\ \A h \in handlers : ENABLED Resume(h)
    /\ (OpenConns # {} /\ nMsgs < MaxMessages) => ENABLED Begin
    /\ \A t \in inflight :
          t.applied => t.fields = [status |-> t.rec.status, stamp |-> t.rec.stamp]

\* the handler of the second message has returned its tasks while a callback
\* of the first message is still in flight and another one of it has failed
C17_Witness ==
    /\ returned = [n |-> 2, result |-> "tasks"]
    /\ 1 \in failed
    /\ \E t \in inflight : t.msg = 1
    /\ \E t \in inflight : t.msg = 2 /\ t.applied

\* C18: whatever handlers, fetches and callbacks are in progress, every
\* entity is a whole snapshot: its fields are those of one record, the one
\* before or the one after an update, never a mixture.
C18_EntitySnapshotsWhole ==
    /\ \A k \in DOMAIN areaObj : areaObj[k].stamp = areaObj[k].status
    /\ \A z \in DOMAIN zones : zones[z].stamp = zones[z].status

\* a handler is suspended while the callback of an entity is in flight, and
\* the entity has been updated again since that callback was created
C18_Witness ==
    /\ handlers # {}
    /\ \E t \in inflight : t.applied /\ FieldsOf(Start, t.entity) # t.fields

\* the entities a message is about
MsgTargets(code, id) ==
    IF code \in AreaCodes
    THEN {AreaRef(a, areas[a]) : a \in {id} \cap DOMAIN areas}
    ELSE IF code \in ZoneCodes
    THEN {ZoneRef(z, zones[z].gen) : z \in {id} \cap DOMAIN zones}
    ELSE IF code \in UserCodes THEN RegisteredAreas
    ELSE {}

\* C19: a step of the handler of a message changes nothing but the status
\* fields of that message's target entities: the keys of both registries, the
\* Area stored under each id, the Area each Zone belongs to, the zones each
\* Area owns, the panel info, the connection handle and every other entity are
\* as before.
C19_HandlerChangesTargetsOnly ==
    [][(nMsgs' # nMsgs \/ handlers' # handlers) =>
          /\ UNCHANGED <<areas, areaOrder, info, websocket, conns>>
          /\ DOMAIN zones' = DOMAIN zones
          /\ DOMAIN areaObj' = DOMAIN areaObj
          /\ \A z \in DOMAIN zones :
                zones'[z].area = zones[z].area /\ zones'[z].gen = zones[z].gen
          /\ \A k \in DOMAIN areaObj : areaObj'[k].zones = areaObj[k].zones
          /\ nMsgs' # nMsgs => UNCHANGED <<zones, areaObj>>
          /\ \A h \in handlers \ handlers' :
                /\ \A k \in DOMAIN areaObj :
                      AreaRef(k[1], k[2]) \notin MsgTargets(h.code, h.id)
                          => areaObj'[k] = areaObj[k]
                /\ \A z \in DOMAIN zones :
                      ZoneRef(z, zones[z].gen) \notin MsgTargets(h.code, h.id)
                          => zones'[z] = zones[z]]_vars

\* a message about one Area was handled on an open connection and gave the
\* Area a status that the other Area does not have
C19_Witness ==
    /\ websocket # 0
    /\ returned.result = "tasks"
    /\ \E t \in inflight :
          /\ t.msg = returned.n
          /\ t.applied
          /\ t.entity.kind = "area"
          /\ FieldsOf(Start, t.entity).status = t.rec.status
          /\ \E k \in DOMAIN areaObj :
                k[1] # t.entity.id /\ areaObj[k].status # t.rec.status
                /\ areaObj[k].zones # <<>>

====
